---- MODULE Spec2Model ----
(***************************************************************************)
(* Model of the Dolls network front end: the VarInt wire codec             *)
(* (crates/network/src/io/parser.rs), the raw packet framer                *)
(* (io/packet.rs), the packet registry (io/packet/processor.rs) and the    *)
(* listener with its connection sessions (server.rs).                      *)
(***************************************************************************)
EXTENDS Integers, Sequences, FiniteSets, TLC

(***************************************************************************)
(* Bounds of the model.                                                    *)
(***************************************************************************)
\* longest byte stream a client sends before it closes the connection
MaxStreamLen == 4
\* largest number of registrations the inventory collection holds
MaxRegistrations == 2
\* longest byte stream of a client of the two-caller specification
MaxShortLen == 2

\* longest run of continuation bytes at the head of a stream a parser reads
MaxCont == 11
\* longest run of arbitrary bytes after it
MaxTail == 2
\* longest text a string or JSON field carries
MaxBlobLen == 3
\* longest stream a bit set is read from, and largest size asked of read_fixed_bitset
MaxBitStreamLen == 9

\* the byte values clients send: small lengths and ids, and a continuation byte
Bytes == {0, 1, 2, 3, 128}
\* tasks that call DollNetworkServer::accept
Callers == {"t1", "t2"}
\* DollNetworkServer instances (values of &self)
Instances == {"srvA", "srvB"}
\* the builds of the crate: with and without integer overflow checks
Builds == {"debug", "release"}

StreamsUpTo(n) == UNION {[1..k -> Bytes] : k \in 0..n}
Streams == StreamsUpTo(MaxStreamLen)
ShortStreams == StreamsUpTo(MaxShortLen)
\* the sessions the listeners can spawn
SessionIds == {1, 2}

(***************************************************************************)
(* Machine arithmetic.  A u32 is kept as its two 16-bit limbs, low limb    *)
(* first, so that every value of the type has a representation and the     *)
(* bits a shift pushes past bit 31 are lost as on the machine.             *)
(***************************************************************************)
RECURSIVE Pow2(_)
Pow2(n) == IF n = 0 THEN 1 ELSE 2 * Pow2(n - 1)

Limb == Pow2(16)

RECURSIVE BitAnd(_, _)
BitAnd(a, b) ==
    IF a = 0 \/ b = 0 THEN 0
    ELSE (IF a % 2 = 1 /\ b % 2 = 1 THEN 1 ELSE 0) + 2 * BitAnd(a \div 2, b \div 2)

RECURSIVE BitOr(_, _)
BitOr(a, b) ==
    IF a = 0 THEN b
    ELSE IF b = 0 THEN a
    ELSE (IF a % 2 = 1 \/ b % 2 = 1 THEN 1 ELSE 0) + 2 * BitOr(a \div 2, b \div 2)

\* the n-limb value of a number below 2^31
Wide(v, n) ==
    [i \in 1..n |-> IF i = 1 THEN v % Limb ELSE IF i = 2 THEN v \div Limb ELSE 0]

\* a | b
WideOr(a, b) == [i \in DOMAIN a |-> BitOr(a[i], b[i])]

\* (x as uN) << k for a byte x, on n limbs
WideShl(x, k, n) ==
    LET t == x * Pow2(k % 16)
        q == k \div 16
    IN  [i \in 1..n |-> IF i = q + 1 THEN t % Limb
                        ELSE IF i = q + 2 THEN t \div Limb
                        ELSE 0]

\* the value as a number, for values below 2^16
IsSmall(a) == \A i \in DOMAIN a : i > 1 => a[i] = 0
Small(a) == a[1]

\* a < b for a number b below 2^16
WideLess(a, b) == IsSmall(a) /\ Small(a) < b

\* a - b modulo 2^(16 n) for a number b below 2^16
RECURSIVE WideSubFrom(_, _, _)
WideSubFrom(a, b, i) ==
    IF i > Len(a) THEN a
    ELSE IF a[i] >= b THEN [a EXCEPT ![i] = a[i] - b]
    ELSE WideSubFrom([a EXCEPT ![i] = a[i] + Limb - b], 1, i + 1)

WideSub(a, b) == WideSubFrom(a, b, 1)

U32(v) == Wide(v, 2)

SEGMENT_BITS == 127
CONTINUE_BIT == 128

(***************************************************************************)
(* Wire codec.  A read takes the stream and the cursor p (index of the     *)
(* next unread byte) and returns the outcome with the cursor after it.     *)
(***************************************************************************)
IoErr(p) == [ok |-> FALSE, err |-> "Io", value |-> U32(0), size |-> 0, pos |-> p]
TooBig(p) == [ok |-> FALSE, err |-> "VarIntTooBig", value |-> U32(0), size |-> 0, pos |-> p]

\* a read_varint that gives up one byte later
RECURSIVE read_varint_loop_late(_, _, _, _)
read_varint_loop_late(st, p, value, position) ==
    IF p > Len(st) THEN IoErr(p)
    ELSE LET current_byte == st[p]
             v == WideOr(value, WideShl(BitAnd(current_byte, SEGMENT_BITS), position, 2))
         IN  IF BitAnd(current_byte, CONTINUE_BIT) = 0
             THEN [ok |-> TRUE, err |-> "", value |-> v, size |-> 0, pos |-> p + 1]
             ELSE IF position + 7 >= 40 THEN TooBig(p + 1)
             ELSE read_varint_loop_late(st, p + 1, v, position + 7)

\* a read_varint that refuses a fifth byte whose segment does not fit in 32 bits
RECURSIVE read_varint_loop_strict(_, _, _, _)
read_varint_loop_strict(st, p, value, position) ==
    IF p > Len(st) THEN IoErr(p)
    ELSE LET current_byte == st[p]
             v == WideOr(value, WideShl(BitAnd(current_byte, SEGMENT_BITS), position, 2))
         IN  IF position = 28 /\ BitAnd(current_byte, SEGMENT_BITS) >= 16 THEN TooBig(p + 1)
             ELSE IF BitAnd(current_byte, CONTINUE_BIT) = 0
             THEN [ok |-> TRUE, err |-> "", value |-> v, size |-> 0, pos |-> p + 1]
             ELSE IF position + 7 >= 32 THEN TooBig(p + 1)
             ELSE read_varint_loop_strict(st, p + 1, v, position + 7)

RECURSIVE read_varint_loop(_, _, _, _)
read_varint_loop(st, p, value, position) ==
    IF p > Len(st) THEN IoErr(p)
    ELSE LET current_byte == st[p]
             v == WideOr(value, WideShl(BitAnd(current_byte, SEGMENT_BITS), position, 2))
         IN  IF BitAnd(current_byte, CONTINUE_BIT) = 0
             THEN [ok |-> TRUE, err |-> "", value |-> v, size |-> 0, pos |-> p + 1]
             ELSE IF position + 7 >= 32 THEN TooBig(p + 1)
             ELSE read_varint_loop(st, p + 1, v, position + 7)

read_varint(st, p) == read_varint_loop(st, p, U32(0), 0)

\* a read_varint_and_get_size that does not count the byte that ends the VarInt
RECURSIVE read_varint_size_loop_short(_, _, _, _, _)
read_varint_size_loop_short(st, p, value, position, size) ==
    IF p > Len(st) THEN IoErr(p)
    ELSE LET current_byte == st[p]
             v == WideOr(value, WideShl(BitAnd(current_byte, SEGMENT_BITS), position, 2))
         IN  IF BitAnd(current_byte, CONTINUE_BIT) = 0
             THEN [ok |-> TRUE, err |-> "", value |-> v, size |-> size, pos |-> p + 1]
             ELSE IF position + 7 >= 32 THEN TooBig(p + 1)
             ELSE read_varint_size_loop_short(st, p + 1, v, position + 7, size + 1)

RECURSIVE read_varint_size_loop(_, _, _, _, _)
read_varint_size_loop(st, p, value, position, size) ==
    IF p > Len(st) THEN IoErr(p)
    ELSE LET current_byte == st[p]
             v == WideOr(value, WideShl(BitAnd(current_byte, SEGMENT_BITS), position, 2))
         IN  IF BitAnd(current_byte, CONTINUE_BIT) = 0
             THEN [ok |-> TRUE, err |-> "", value |-> v, size |-> size + 1, pos |-> p + 1]
             ELSE IF position + 7 >= 32 THEN TooBig(p + 1)
             ELSE read_varint_size_loop(st, p + 1, v, position + 7, size + 1)

read_varint_and_get_size(st, p) == read_varint_size_loop(st, p, U32(0), 0, 0)

\* read_exact fills the whole buffer or fails at the end of the stream,
\* having taken the bytes that were left
read_exact_bytes(st, p, size) ==
    IF IsSmall(size) /\ p + Small(size) - 1 <= Len(st)
    THEN [ok |-> TRUE, err |-> "", bytes |-> SubSeq(st, p, p + Small(size) - 1),
          pos |-> p + Small(size)]
    ELSE [ok |-> FALSE, err |-> "Io", bytes |-> <<>>, pos |-> Len(st) + 1]

U64(v) == Wide(v, 4)

IoErr64(p) == [ok |-> FALSE, err |-> "Io", value |-> U64(0), size |-> 0, pos |-> p]
VarLongTooBig(p) ==
    [ok |-> FALSE, err |-> "VarLongTooBig", value |-> U64(0), size |-> 0, pos |-> p]

\* a read_varlong that gives up one byte later
RECURSIVE read_varlong_loop_late(_, _, _, _)
read_varlong_loop_late(st, p, value, position) ==
    IF p > Len(st) THEN IoErr64(p)
    ELSE LET current_byte == st[p]
             v == WideOr(value, WideShl(BitAnd(current_byte, SEGMENT_BITS), position, 4))
         IN  IF BitAnd(current_byte, CONTINUE_BIT) = 0
             THEN [ok |-> TRUE, err |-> "", value |-> v, size |-> 0, pos |-> p + 1]
             ELSE IF position + 7 >= 72 THEN VarLongTooBig(p + 1)
             ELSE read_varlong_loop_late(st, p + 1, v, position + 7)

RECURSIVE read_varlong_loop(_, _, _, _)
read_varlong_loop(st, p, value, position) ==
    IF p > Len(st) THEN IoErr64(p)
    ELSE LET current_byte == st[p]
             v == WideOr(value, WideShl(BitAnd(current_byte, SEGMENT_BITS), position, 4))
         IN  IF BitAnd(current_byte, CONTINUE_BIT) = 0
             THEN [ok |-> TRUE, err |-> "", value |-> v, size |-> 0, pos |-> p + 1]
             ELSE IF position + 7 >= 64 THEN VarLongTooBig(p + 1)
             ELSE read_varlong_loop(st, p + 1, v, position + 7)

read_varlong(st, p) == read_varlong_loop(st, p, U64(0), 0)

\* String::from_utf8: the buffer is well-formed UTF-8 from index i on
RECURSIVE from_utf8_ok(_, _)
from_utf8_ok(b, i) ==
    LET n == Len(b)
        cont(j) == j <= n /\ b[j] >= 128 /\ b[j] <= 191
        within(j, lo, hi) == j <= n /\ b[j] >= lo /\ b[j] <= hi
    IN  IF i > n THEN TRUE
        ELSE IF b[i] < 128 THEN from_utf8_ok(b, i + 1)
        ELSE IF b[i] >= 194 /\ b[i] <= 223 THEN cont(i + 1) /\ from_utf8_ok(b, i + 2)
        ELSE IF b[i] = 224
             THEN within(i + 1, 160, 191) /\ cont(i + 2) /\ from_utf8_ok(b, i + 3)
        ELSE IF b[i] = 237
             THEN within(i + 1, 128, 159) /\ cont(i + 2) /\ from_utf8_ok(b, i + 3)
        ELSE IF b[i] >= 225 /\ b[i] <= 239
             THEN cont(i + 1) /\ cont(i + 2) /\ from_utf8_ok(b, i + 3)
        ELSE IF b[i] = 240
             THEN within(i + 1, 144, 191) /\ cont(i + 2) /\ cont(i + 3)
                  /\ from_utf8_ok(b, i + 4)
        ELSE IF b[i] = 244
             THEN within(i + 1, 128, 143) /\ cont(i + 2) /\ cont(i + 3)
                  /\ from_utf8_ok(b, i + 4)
        ELSE IF b[i] >= 241 /\ b[i] <= 243
             THEN cont(i + 1) /\ cont(i + 2) /\ cont(i + 3) /\ from_utf8_ok(b, i + 4)
        ELSE FALSE

\* serde_json::from_str into a JSON value, for texts whose characters are
\* digits, brackets, commas and characters that no JSON text holds outside a
\* string literal: the index after the value that starts at i, 0 if there is none
RECURSIVE json_digits(_, _)
json_digits(b, i) ==
    IF i <= Len(b) /\ b[i] >= 48 /\ b[i] <= 57 THEN json_digits(b, i + 1) ELSE i

RECURSIVE json_value(_, _)
RECURSIVE json_elements(_, _)
json_value(b, i) ==
    IF i > Len(b) THEN 0
    ELSE IF b[i] = 48 THEN (IF json_digits(b, i + 1) = i + 1 THEN i + 1 ELSE 0)
    ELSE IF b[i] >= 49 /\ b[i] <= 57 THEN json_digits(b, i + 1)
    ELSE IF b[i] = 91
         THEN IF i + 1 <= Len(b) /\ b[i + 1] = 93 THEN i + 2 ELSE json_elements(b, i + 1)
    ELSE 0

json_elements(b, i) ==
    LET e == json_value(b, i)
    IN  IF e = 0 \/ e > Len(b) THEN 0
        ELSE IF b[e] = 93 THEN e + 1
        ELSE IF b[e] = 44 THEN json_elements(b, e + 1)
        ELSE 0

from_str_ok(b) == json_value(b, 1) = Len(b) + 1

TextErr(kind, e, p) == [kind |-> kind, err |-> e, bytes |-> <<>>, pos |-> p]

read_string(st, p) ==
    LET length == read_varint(st, p)
        buffer == read_exact_bytes(st, length.pos, length.value)
    IN  IF ~length.ok THEN TextErr("Err", length.err, length.pos)
        ELSE IF ~buffer.ok THEN TextErr("Err", buffer.err, buffer.pos)
        ELSE IF ~from_utf8_ok(buffer.bytes, 1) THEN TextErr("Panic", "", buffer.pos)
        ELSE [kind |-> "Ok", err |-> "", bytes |-> buffer.bytes, pos |-> buffer.pos]

read_json(st, p) ==
    LET length == read_varint(st, p)
        buffer == read_exact_bytes(st, length.pos, length.value)
    IN  IF ~length.ok THEN TextErr("Err", length.err, length.pos)
        ELSE IF ~buffer.ok THEN TextErr("Err", buffer.err, buffer.pos)
        ELSE IF ~from_utf8_ok(buffer.bytes, 1) THEN TextErr("Panic", "", buffer.pos)
        ELSE IF ~from_str_ok(buffer.bytes) THEN TextErr("Panic", "", buffer.pos)
        ELSE [kind |-> "Ok", err |-> "", bytes |-> buffer.bytes, pos |-> buffer.pos]

\* the eight pushes of the inner loop: (byte >> i) & 1 == 1 for i in 0..8
ByteBits(byte) == [i \in 1..8 |-> (byte \div Pow2(i - 1)) % 2 = 1]

RECURSIVE BufferBits(_)
BufferBits(buffer) ==
    IF buffer = <<>> THEN <<>> ELSE ByteBits(Head(buffer)) \o BufferBits(Tail(buffer))

BitsErr(e, p) == [ok |-> FALSE, err |-> e, bits |-> <<>>, pos |-> p]

read_bitset(st, p) ==
    LET length == read_varint(st, p)
        buffer == read_exact_bytes(st, length.pos, length.value)
    IN  IF ~length.ok THEN BitsErr(length.err, length.pos)
        ELSE IF ~buffer.ok THEN BitsErr(buffer.err, buffer.pos)
        ELSE [ok |-> TRUE, err |-> "", bits |-> BufferBits(buffer.bytes), pos |-> buffer.pos]

read_fixed_bitset(st, p, size) ==
    LET buffer == read_exact_bytes(st, p, U32(size))
    IN  IF ~buffer.ok THEN BitsErr(buffer.err, buffer.pos)
        ELSE [ok |-> TRUE, err |-> "", bits |-> BufferBits(buffer.bytes), pos |-> buffer.pos]

(***************************************************************************)
(* Raw packet framer.                                                      *)
(***************************************************************************)
NoPacket == [size_in_bytes |-> U32(0), packet_id |-> U32(0), payload |-> <<>>]

RawPacket(length, packet_id, payload) ==
    [size_in_bytes |-> length, packet_id |-> packet_id, payload |-> payload]

FrameErr(start, e, p, w) ==
    [kind |-> "Err", err |-> e, packet |-> NoPacket, start |-> start, pos |-> p, wrapped |-> w]

\* the payload length taken to be the declared length
SubU32Forgotten(build, a, b) == [panic |-> FALSE, value |-> a]

\* length - packet_id_size on u32: a build with overflow checks panics when it
\* underflows, a build without them wraps modulo 2^32
SubU32(build, a, b) ==
    IF ~WideLess(a, b) THEN [panic |-> FALSE, value |-> WideSub(a, b)]
    ELSE IF build = "debug" THEN [panic |-> TRUE, value |-> U32(0)]
    ELSE [panic |-> FALSE, value |-> WideSub(a, b)]

next_packet(st, p, build) ==
    LET length == read_varint(st, p) IN
    IF ~length.ok THEN FrameErr(p, length.err, length.pos, FALSE)
    ELSE
    LET id == read_varint_and_get_size(st, length.pos) IN
    IF ~id.ok THEN FrameErr(p, id.err, id.pos, FALSE)
    ELSE
    LET data_length == SubU32(build, length.value, id.size) IN
    IF data_length.panic
    THEN [kind |-> "Panic", err |-> "", packet |-> NoPacket, start |-> p,
          pos |-> id.pos, wrapped |-> FALSE]
    ELSE
    LET payload == read_exact_bytes(st, id.pos, data_length.value)
        w == WideLess(length.value, id.size)
    IN  IF ~payload.ok THEN FrameErr(p, payload.err, payload.pos, w)
        ELSE [kind |-> "Ok", err |-> "",
              packet |-> RawPacket(length.value, id.value, payload.bytes),
              start |-> p, pos |-> payload.pos, wrapped |-> w]

NoResult ==
    [kind |-> "None", err |-> "", packet |-> NoPacket, start |-> 1, pos |-> 1, wrapped |-> FALSE]

(***************************************************************************)
(* Packet registry.                                                        *)
(***************************************************************************)
\* Option::None of a handler lookup; function pointers are the numbers from 11
None == 0

\* the k static registrations of the inventory collection, in iteration order
\* PacketType discriminants run from 0; `registration.packet_id as u32`
Registration(i) == [packet_id |-> i - 1, processor |-> 10 + i]
Inventory(k) == [i \in 1..k |-> Registration(i)]

\* an insert that replaces the map by the one entry
HashMapInsertAlone(T, k, v) == [x \in {k} |-> v]

HashMapInsert(T, k, v) == [x \in (DOMAIN T) \cup {k} |-> IF x = k THEN v ELSE T[x]]

EmptyMap == [x \in {} |-> None]

get_handler(T, packet_id) == IF packet_id \in DOMAIN T THEN T[packet_id] ELSE None


(***************************************************************************)
(* State.                                                                  *)
(***************************************************************************)
VARIABLES
    regs,        \* number of registrations submitted to the inventory collection
    HANDLERS,    \* the HashMap inside the static RwLock
    is_running,  \* DollNetworkServer.is_running, per instance
    workers,     \* DollNetworkServer.workers, per instance
    apc,         \* position of each accept() call
    self,        \* the instance each accept() call runs on
    idx,         \* init_packet_processors: next registration to insert (0: not populating)
    spc,         \* position of each connection session
    stream,      \* the bytes the session's peer sends before it closes
    res,         \* outcome of the session's last next_packet call
    func,        \* handler the session's last get_handler call returned
    log,         \* what the session did: frames read, handler calls, rejected ids
    call,        \* a call of one parser function: the function, its stream, its argument
    ret          \* what that call returned

vars == <<regs, HANDLERS, is_running, workers, apc, self, idx, spc, stream, res, func, log,
          call, ret>>

serverVars == <<regs, HANDLERS, is_running, workers, apc, self, idx>>
sessionVars == <<spc, stream, res, func, log>>
codecVars == <<call, ret>>

\* a log entry: the packet, the handler's result, and where the frame lay in the stream
Event(ev, r, result) ==
    [ev |-> ev, pkt |-> r.packet, res |-> result, at |-> r.start, end |-> r.pos]

\* a call of a parser function, and the state before it returns
CallOf(f, st, arg) == [op |-> f, st |-> st, arg |-> arg, of |-> <<>>]
NoCall == CallOf("none", <<>>, 0)
NotReturned == [kind |-> "NotReturned"]

ServerInit ==
    /\ regs \in 1..MaxRegistrations
    /\ HANDLERS = EmptyMap
    /\ is_running = [i \in Instances |-> FALSE]
    /\ workers = [i \in Instances |-> <<>>]
    /\ apc = [c \in Callers |-> "idle"]
    /\ self \in {f \in [Callers -> Instances] : f["t1"] = "srvA"}
    /\ idx = [c \in Callers |-> 0]
    /\ spc = [s \in SessionIds |-> "none"]
    /\ stream = [s \in SessionIds |-> <<>>]
    /\ res = [s \in SessionIds |-> NoResult]
    /\ func = [s \in SessionIds |-> None]
    /\ log = [s \in SessionIds |-> <<>>]

Init ==
    /\ ServerInit
    /\ call = NoCall
    /\ ret = NotReturned

(***************************************************************************)
(* DollNetworkServer::accept.                                              *)
(***************************************************************************)
\* the call and the load of is_running
AcceptGuard(c) ==
    /\ apc[c] = "idle"
    /\ apc' = [apc EXCEPT ![c] = IF is_running[self[c]] THEN "rejected" ELSE "init_check"]
    /\ UNCHANGED <<regs, HANDLERS, is_running, workers, self, idx>>
    /\ UNCHANGED sessionVars
    /\ UNCHANGED codecVars

\* init_packet_processors: HANDLERS.read().await.is_empty(); the read guard is
\* dropped at the end of the condition
InitCheck(c) ==
    /\ apc[c] = "init_check"
    /\ IF DOMAIN HANDLERS = {}
       THEN /\ apc' = [apc EXCEPT ![c] = "init_insert"]
            /\ idx' = [idx EXCEPT ![c] = 1]
       ELSE /\ apc' = [apc EXCEPT ![c] = "store"]
            /\ idx' = idx
    /\ UNCHANGED <<regs, HANDLERS, is_running, workers, self>>
    /\ UNCHANGED sessionVars
    /\ UNCHANGED codecVars

\* one iteration of the loop: HANDLERS.write().await.insert(..); the write guard
\* lives for this statement only
InitInsert(c) ==
    /\ apc[c] = "init_insert"
    /\ LET registration == Inventory(regs)[idx[c]]
       IN  HANDLERS' = HashMapInsert(HANDLERS, U32(registration.packet_id),
                                        registration.processor)
    /\ idx' = [idx EXCEPT ![c] = idx[c] + 1]
    /\ apc' = [apc EXCEPT ![c] = IF idx[c] = regs THEN "store" ELSE "init_insert"]
    /\ UNCHANGED <<regs, is_running, workers, self>>
    /\ UNCHANGED sessionVars
    /\ UNCHANGED codecVars

StoreRunning(c) ==
    /\ apc[c] = "store"
    /\ is_running' = [is_running EXCEPT ![self[c]] = TRUE]
    /\ apc' = [apc EXCEPT ![c] = "bind"]
    /\ UNCHANGED <<regs, HANDLERS, workers, self, idx>>
    /\ UNCHANGED sessionVars
    /\ UNCHANGED codecVars

\* TcpListener::bind(..).await.unwrap(): the system grants the address or not
\* (port 0 gives every bind its own port)
Bind(c) ==
    /\ apc[c] = "bind"
    /\ \E granted \in BOOLEAN :
         apc' = [apc EXCEPT ![c] = IF granted THEN "accepting" ELSE "panicked"]
    /\ UNCHANGED <<regs, HANDLERS, is_running, workers, self, idx>>
    /\ UNCHANGED sessionVars
    /\ UNCHANGED codecVars

FreeSessions(ids) == {s \in ids : spc[s] = "none"}

\* incoming.next() yields a connection: a worker is spawned and its handle pushed;
\* the connection is one of `ids` and its peer sends one of `inputs`
AcceptConn(c, ids, inputs) ==
    /\ apc[c] = "accepting"
    /\ FreeSessions(ids) # {}
    /\ LET s == CHOOSE x \in FreeSessions(ids) : \A y \in FreeSessions(ids) : x <= y
       IN  /\ \E bytes \in inputs : stream' = [stream EXCEPT ![s] = bytes]
           /\ spc' = [spc EXCEPT ![s] = "spawned"]
           /\ workers' = [workers EXCEPT ![self[c]] = Append(@, s)]
    /\ UNCHANGED <<regs, HANDLERS, is_running, apc, self, idx, res, func, log>>
    /\ UNCHANGED codecVars

\* incoming.next() yields an error: `while let Some(Ok(stream))` ends the loop
AcceptErr(c) ==
    /\ apc[c] = "accepting"
    /\ apc' = [apc EXCEPT ![c] = "returned"]
    /\ UNCHANGED <<regs, HANDLERS, is_running, workers, self, idx>>
    /\ UNCHANGED sessionVars
    /\ UNCHANGED codecVars

(***************************************************************************)
(* Connection session (the task of create_new_worker).                     *)
(***************************************************************************)
\* set_nodelay(true).unwrap(), then peer_addr().unwrap()
SessionStart(s) ==
    /\ spc[s] = "spawned"
    /\ \E nodelay_ok, peer_addr_ok \in BOOLEAN :
         spc' = [spc EXCEPT ![s] =
                   CASE ~nodelay_ok -> "nodelay_panicked"
                     [] ~peer_addr_ok -> "peer_addr_panicked"
                     [] OTHER -> "reading"]
    /\ UNCHANGED <<stream, res, func, log>>
    /\ UNCHANGED serverVars
    /\ UNCHANGED codecVars

\* packet_handler.next_packet().await
NextPacket(s) ==
    /\ spc[s] = "reading"
    /\ \E build \in Builds :
         LET r == next_packet(stream[s], res[s].pos, build)
         IN  /\ res' = [res EXCEPT ![s] = r]
             /\ spc' = [spc EXCEPT ![s] =
                          CASE r.kind = "Ok" -> "lookup"
                            [] r.kind = "Err" -> "closed"
                            [] OTHER -> "panicked"]
             /\ log' = [log EXCEPT ![s] =
                          IF r.kind = "Ok" THEN Append(@, Event("frame", r, "")) ELSE @]
    /\ func' = [func EXCEPT ![s] = None]
    /\ UNCHANGED stream
    /\ UNCHANGED serverVars
    /\ UNCHANGED codecVars

\* a lookup that waits while another session runs a handler
GetHandlerExclusive(s) ==
    /\ spc[s] = "lookup"
    /\ \A t \in SessionIds \ {s} : spc[t] # "dispatch"
    /\ LET f == get_handler(HANDLERS, res[s].packet.packet_id)
       IN  /\ func' = [func EXCEPT ![s] = f]
           /\ IF f # None
              THEN /\ spc' = [spc EXCEPT ![s] = "dispatch"]
                   /\ log' = log
              ELSE /\ spc' = [spc EXCEPT ![s] = "reading"]
                   /\ log' = [log EXCEPT ![s] = Append(@, Event("unknown", res[s], ""))]
    /\ UNCHANGED <<stream, res>>
    /\ UNCHANGED serverVars
    /\ UNCHANGED codecVars

\* a dispatch that ends the session on an id without a handler
GetHandlerOrClose(s) ==
    /\ spc[s] = "lookup"
    /\ LET f == get_handler(HANDLERS, res[s].packet.packet_id)
       IN  /\ func' = [func EXCEPT ![s] = f]
           /\ IF f # None
              THEN /\ spc' = [spc EXCEPT ![s] = "dispatch"]
                   /\ log' = log
              ELSE /\ spc' = [spc EXCEPT ![s] = "closed"]
                   /\ log' = [log EXCEPT ![s] = Append(@, Event("unknown", res[s], ""))]
    /\ UNCHANGED <<stream, res>>
    /\ UNCHANGED serverVars
    /\ UNCHANGED codecVars

\* get_handler(packet.packet_id).await, and the else branch of the dispatch
GetHandler(s) ==
    /\ spc[s] = "lookup"
    /\ LET f == get_handler(HANDLERS, res[s].packet.packet_id)
       IN  /\ func' = [func EXCEPT ![s] = f]
           /\ IF f # None
              THEN /\ spc' = [spc EXCEPT ![s] = "dispatch"]
                   /\ log' = log
              ELSE /\ spc' = [spc EXCEPT ![s] = "reading"]
                   /\ log' = [log EXCEPT ![s] = Append(@, Event("unknown", res[s], ""))]
    /\ UNCHANGED <<stream, res>>
    /\ UNCHANGED serverVars
    /\ UNCHANGED codecVars

\* a dispatch that propagates the handler's error out of the loop
DispatchOrClose(s) ==
    /\ spc[s] = "dispatch"
    /\ \E r \in {"Ok", "Err"} :
         /\ log' = [log EXCEPT ![s] = Append(@, Event("invoke", res[s], r))]
         /\ spc' = [spc EXCEPT ![s] = IF r = "Ok" THEN "reading" ELSE "closed"]
    /\ func' = [func EXCEPT ![s] = None]
    /\ UNCHANGED <<stream, res>>
    /\ UNCHANGED serverVars
    /\ UNCHANGED codecVars

\* a dispatch that goes back to reading without having called the handler
DispatchSkipped(s) ==
    /\ spc[s] = "dispatch"
    /\ spc' = [spc EXCEPT ![s] = "reading"]
    /\ func' = [func EXCEPT ![s] = None]
    /\ UNCHANGED <<stream, res, log>>
    /\ UNCHANGED serverVars
    /\ UNCHANGED codecVars

\* func(packet): the handler's result is its own business
Dispatch(s) ==
    /\ spc[s] = "dispatch"
    /\ \E r \in {"Ok", "Err"} :
         log' = [log EXCEPT ![s] = Append(@, Event("invoke", res[s], r))]
    /\ spc' = [spc EXCEPT ![s] = "reading"]
    /\ func' = [func EXCEPT ![s] = None]
    /\ UNCHANGED <<stream, res>>
    /\ UNCHANGED serverVars
    /\ UNCHANGED codecVars

CallerStep(c, ids, inputs) ==
    \/ AcceptGuard(c)
    \/ InitCheck(c)
    \/ InitInsert(c)
    \/ StoreRunning(c)
    \/ Bind(c)
    \/ AcceptConn(c, ids, inputs)
    \/ AcceptErr(c)

SessionStep(s) ==
    \/ SessionStart(s)
    \/ NextPacket(s)
    \/ GetHandler(s)
    \/ Dispatch(s)

\* Two tasks call accept, on one instance or on two, and the listeners serve
\* one connection.
Next ==
    \/ \E c \in Callers : CallerStep(c, {1}, ShortStreams)
    \/ SessionStep(1)

Spec == Init /\ [][Next]_vars

\* The program of app/src/main.rs: one instance, one task that calls accept,
\* and one connection whose peer sends any stream.
NextMain ==
    \/ CallerStep("t1", {1}, Streams)
    \/ SessionStep(1)

SpecMain == Init /\ [][NextMain]_vars

\* what the peers of two concurrent connections send: nothing, a frame for a
\* registered id, a frame for an id without a handler, a frame whose length
\* is below the size of its id, a frame that is cut short
PairStreams == {<<>>, <<1, 0>>, <<1, 3>>, <<0, 0>>, <<2, 0>>}

\* One task calls accept and its listener serves two connections.
NextPair ==
    \/ CallerStep("t1", SessionIds, PairStreams)
    \/ \E s \in SessionIds : SessionStep(s)

SpecPair == Init /\ [][NextPair]_vars

(***************************************************************************)
(* The parser functions, each called once on a stream of its own.          *)
(***************************************************************************)
\* bytes of the streams the integer parsers read
CodecBytes == {0, 1, 127, 128, 255}
\* bytes that carry the continuation bit
ContBytes == {128, 255}
\* bytes of texts: 1 [ ] and , then the two bytes of U+00E9, and a byte no UTF-8 text holds
BlobBytes == {49, 91, 93, 44, 195, 169, 255}
\* bytes of bit sets
BitBytes == {1, 178}
\* limbs of the sampled u32 and u64 values
LimbSamples == {0, 1, 127, 128, 16383, 16384, 32768, 65535}
LongLimbSamples == {0, 1, 128, 32768, 65535}

U32Values == {<<lo, hi>> : lo \in LimbSamples, hi \in LimbSamples}
U64Values == [1..4 -> LongLimbSamples]

SeqsUpTo(S, n) == UNION {[1..k -> S] : k \in 0..n}
Run(c, k) == [i \in 1..k |-> c]

\* v >> 7
WideShr7(v) ==
    [i \in DOMAIN v |-> (v[i] \div 128) + (IF i < Len(v) THEN (v[i + 1] % 128) * 512 ELSE 0)]

\* the canonical (shortest) VarInt or VarLong encoding of v
RECURSIVE EncodeWide(_)
EncodeWide(v) ==
    IF \A i \in DOMAIN v : WideShr7(v)[i] = 0 THEN <<v[1] % 128>>
    ELSE <<(v[1] % 128) + 128>> \o EncodeWide(WideShr7(v))

\* streams that start with a run of continuation bytes
HeadedStreams(tails) ==
    {Run(c, k) \o t : c \in ContBytes, k \in 0..MaxCont, t \in tails}
\* a call on the encoding of v, followed by the bytes t
EncodedCall(f, v, t) == [op |-> f, st |-> EncodeWide(v) \o t, arg |-> 0, of |-> v]
\* a text behind a one-byte length, the right length or not
TextStreams(blobs) == {<<n>> \o b : n \in 0..(MaxBlobLen + 1), b \in blobs}

ParserFunctions ==
    {"read_varint", "read_varint_and_get_size", "read_varlong", "read_fixed_bitset",
     "read_bitset", "read_string", "read_json"}

\* the calls of parser function f
CallsOf(f) ==
    CASE f \in {"read_varint", "read_varint_and_get_size"} ->
           {CallOf(f, st, 0) : st \in HeadedStreams(SeqsUpTo(CodecBytes, MaxTail))}
           \cup {EncodedCall(f, v, t) : v \in U32Values, t \in {<<>>, <<128>>}}
      [] f = "read_varlong" ->
           {CallOf(f, st, 0) : st \in HeadedStreams(SeqsUpTo(CodecBytes, MaxTail))}
           \cup {EncodedCall(f, v, t) : v \in U64Values, t \in {<<>>, <<128>>}}
      [] f = "read_fixed_bitset" ->
           {CallOf(f, st, n) : st \in SeqsUpTo(BitBytes, MaxBitStreamLen),
                               n \in 0..MaxBitStreamLen}
      [] f = "read_bitset" ->
           {CallOf(f, <<l>> \o st, 0) : l \in 0..2, st \in SeqsUpTo(BitBytes, MaxBitStreamLen)}
      [] OTHER ->
           {CallOf(f, st, 0) : st \in TextStreams(SeqsUpTo(BlobBytes, MaxBlobLen))}

InitCodec ==
    /\ ServerInit
    /\ regs = 1
    /\ \E f \in ParserFunctions : call \in CallsOf(f)
    /\ ret = NotReturned

ReadVarInt ==
    /\ call.op = "read_varint"
    /\ ret = NotReturned
    /\ ret' = read_varint(call.st, 1)
    /\ UNCHANGED call
    /\ UNCHANGED serverVars
    /\ UNCHANGED sessionVars

ReadVarIntAndGetSize ==
    /\ call.op = "read_varint_and_get_size"
    /\ ret = NotReturned
    /\ ret' = read_varint_and_get_size(call.st, 1)
    /\ UNCHANGED call
    /\ UNCHANGED serverVars
    /\ UNCHANGED sessionVars

ReadVarLong ==
    /\ call.op = "read_varlong"
    /\ ret = NotReturned
    /\ ret' = read_varlong(call.st, 1)
    /\ UNCHANGED call
    /\ UNCHANGED serverVars
    /\ UNCHANGED sessionVars

ReadFixedBitset ==
    /\ call.op = "read_fixed_bitset"
    /\ ret = NotReturned
    /\ ret' = read_fixed_bitset(call.st, 1, call.arg)
    /\ UNCHANGED call
    /\ UNCHANGED serverVars
    /\ UNCHANGED sessionVars

ReadBitset ==
    /\ call.op = "read_bitset"
    /\ ret = NotReturned
    /\ ret' = read_bitset(call.st, 1)
    /\ UNCHANGED call
    /\ UNCHANGED serverVars
    /\ UNCHANGED sessionVars

ReadString ==
    /\ call.op = "read_string"
    /\ ret = NotReturned
    /\ ret' = read_string(call.st, 1)
    /\ UNCHANGED call
    /\ UNCHANGED serverVars
    /\ UNCHANGED sessionVars

ReadJson ==
    /\ call.op = "read_json"
    /\ ret = NotReturned
    /\ ret' = read_json(call.st, 1)
    /\ UNCHANGED call
    /\ UNCHANGED serverVars
    /\ UNCHANGED sessionVars

NextCodec ==
    \/ ReadVarInt
    \/ ReadVarIntAndGetSize
    \/ ReadVarLong
    \/ ReadFixedBitset
    \/ ReadBitset
    \/ ReadString
    \/ ReadJson

SpecCodec == InitCodec /\ [][NextCodec]_vars

(***************************************************************************)
(* Vocabulary of the properties.                                           *)
(***************************************************************************)
\* the ids the static registrations bind, and the handler of each
RegisteredIds == {U32(Registration(i).packet_id) : i \in 1..regs}
HandlerOf(id) == (CHOOSE i \in 1..regs : U32(Registration(i).packet_id) = id) + 10

\* the table that holds every static registration
FullTable == [id \in RegisteredIds |-> HandlerOf(id)]

\* ids a client can send
ProbeIds == {U32(k) : k \in 0..(MaxRegistrations + 1)} \cup {U32(128), U32(256)}

\* an accept() call that has passed the run-state guard
PastGuard(c) == apc[c] \in {"init_check", "init_insert", "store", "bind", "accepting",
                            "returned", "panicked"}

\* an init_packet_processors() call that found the table empty and populates it
Populates(c) == idx[c] > 0
\* ... and has inserted every registration
Populated(c) == idx[c] = regs + 1
\* an init_packet_processors() call that has returned
InitReturned(c) == apc[c] \in {"store", "bind", "accepting", "returned", "panicked"}

Last(q) == q[Len(q)]

(***************************************************************************)
(* C1.  On one instance at most one accept() call passes the run-state     *)
(* guard, whatever the interleaving of the calls; every other call is      *)
(* rejected, and two accept loops never run on the same instance.          *)
(***************************************************************************)
C1_OneCallPassesGuard ==
    \A c, d \in Callers :
        (c # d /\ self[c] = self[d]) => ~(PastGuard(c) /\ PastGuard(d))

C3_InitCriticalSection ==
    /\ \A c, d \in Callers : (Populates(c) /\ Populates(d)) => c = d
    /\ \A c \in Callers : apc[c] = "store" => HANDLERS = FullTable

(***************************************************************************)
(* C4.  Once an init_packet_processors() call has populated the table, the *)
(* table is the mapping of the static registrations and stays so under     *)
(* every further init call: get_handler returns the registered handler of  *)
(* every registered id and None for every other id.                        *)
(***************************************************************************)
C4_RegistryIdempotentExact ==
    (\E c \in Callers : Populated(c)) =>
        /\ \A i \in 1..regs :
             get_handler(HANDLERS, U32(Registration(i).packet_id)) = Registration(i).processor
        /\ \A id \in ProbeIds \ RegisteredIds : get_handler(HANDLERS, id) = None
        /\ DOMAIN HANDLERS = RegisteredIds

\* a second init call ran on the populated table and returned, with two
\* registrations in the table
C4_Witness ==
    \E c, d \in Callers :
        /\ Populated(c) /\ InitReturned(c)
        /\ ~Populates(d) /\ InitReturned(d)
        /\ regs >= 2
        /\ get_handler(HANDLERS, U32(1)) = Registration(2).processor

(***************************************************************************)
(* The wire format of a frame, as section 6 of the specification gives it. *)
(***************************************************************************)
\* canonical VarInt of a number: 7-bit groups, low group first
RECURSIVE EncodeVarInt(_)
EncodeVarInt(v) ==
    IF v < 128 THEN <<v>> ELSE <<128 + (v % 128)>> \o EncodeVarInt(v \div 128)

\* declared lengths and ids of the frames looked for in a stream
FrameLengths == 0..(MaxStreamLen + 1)
FrameIds == {0, 1, 2, 3, 128, 256}

\* VarInt(L) || VarInt(id) || payload lies at p, whole, with L >= size of the id
WellFormedAt(st, p, L, id) ==
    LET head == EncodeVarInt(L) \o EncodeVarInt(id)
        n == L - Len(EncodeVarInt(id))
    IN  /\ n >= 0
        /\ p + Len(head) + n - 1 <= Len(st)
        /\ SubSeq(st, p, p + Len(head) - 1) = head

\* the frame at p declares a length smaller than the size of its encoded id
UnderflowAt(st, p) ==
    LET length == read_varint(st, p)
    IN  /\ length.ok
        /\ LET id == read_varint_and_get_size(st, length.pos)
           IN  id.ok /\ WideLess(length.value, id.size)

\* the session has called next_packet
Called(s) == res[s].kind # "None"

(***************************************************************************)
(* C5.  next_packet on a frame whose declared length is smaller than the   *)
(* size of its encoded id returns an error: it does not panic, and it      *)
(* attempts no payload read with a wrapped length.                         *)
(***************************************************************************)
C5_UnderflowIsError ==
    \A s \in SessionIds :
        (Called(s) /\ UnderflowAt(stream[s], res[s].start)) =>
            (res[s].kind = "Err" /\ ~res[s].wrapped)

(***************************************************************************)
(* C6.  On a well-formed frame VarInt(L) || VarInt(id) || payload with     *)
(* L >= size of the id, next_packet returns size_in_bytes = L,             *)
(* packet_id = id and the next L - id_size bytes as payload, and leaves    *)
(* the cursor at the first byte after the frame; every packet returned     *)
(* has payload.length = size_in_bytes - id_size.                           *)
(***************************************************************************)
C6_FrameIntegrity ==
    \A s \in SessionIds :
        Called(s) =>
            LET st == stream[s]
                p == res[s].start
            IN  /\ \A L \in FrameLengths, id \in FrameIds :
                     WellFormedAt(st, p, L, id) =>
                        LET k == Len(EncodeVarInt(L)) + Len(EncodeVarInt(id))
                            n == L - Len(EncodeVarInt(id))
                        IN  /\ res[s].kind = "Ok"
                            /\ res[s].packet =
                                 RawPacket(U32(L), U32(id), SubSeq(st, p + k, p + k + n - 1))
                            /\ res[s].pos = p + k + n
                /\ res[s].kind = "Ok" =>
                     LET length == read_varint(st, p)
                         id == read_varint_and_get_size(st, length.pos)
                         pkt == res[s].packet
                     IN  /\ IsSmall(pkt.size_in_bytes)
                         /\ Len(pkt.payload) = Small(pkt.size_in_bytes) - id.size
                         /\ pkt.payload = SubSeq(st, id.pos, res[s].pos - 1)

\* the frame VarInt(3) || VarInt(0) || two bytes was returned as
\* RawPacket{size_in_bytes: 3, packet_id: 0, payload: the two bytes}
C6_Witness ==
    \E s \in SessionIds :
        /\ res[s].kind = "Ok"
        /\ WellFormedAt(stream[s], res[s].start, 3, 0)
        /\ res[s].packet = RawPacket(U32(3), U32(0), SubSeq(stream[s], 3, 4))
        /\ Len(res[s].packet.payload) = 2

(***************************************************************************)
(* C7.  A framed packet whose id has no handler leaves the session in      *)
(* Reading: no handler is called for it and the session is not closed, so  *)
(* the frames that follow are still framed and dispatched.  A session is   *)
(* Closed only by a failed next_packet.                                    *)
(***************************************************************************)
C7_UnknownIdKeepsReading ==
    \A s \in SessionIds :
        /\ spc[s] = "closed" => res[s].kind = "Err"
        /\ (log[s] # <<>> /\ Last(log[s]).ev = "unknown" /\ res[s].kind = "Ok") =>
              /\ spc[s] = "reading"
              /\ Last(log[s]).pkt = res[s].packet
              /\ Len(log[s]) >= 2
              /\ log[s][Len(log[s]) - 1].ev = "frame"
              /\ log[s][Len(log[s]) - 1].at = Last(log[s]).at

\* after a packet with an unknown id a later frame reached its handler
C7_Witness ==
    \E s \in SessionIds : \E i, j \in 1..Len(log[s]) :
        i < j /\ log[s][i].ev = "unknown" /\ log[s][j].ev = "invoke"

(***************************************************************************)
(* C8.  A handler that returns an error leaves the session in Reading:     *)
(* the session is not closed and the next frame is read and dispatched.    *)
(***************************************************************************)
C8_HandlerErrorKeepsReading ==
    \A s \in SessionIds :
        /\ (spc[s] = "closed" /\ log[s] # <<>>) => Last(log[s]).at < res[s].start
        /\ (log[s] # <<>> /\ Last(log[s]).ev = "invoke" /\ Last(log[s]).res = "Err"
              /\ res[s].kind = "Ok") => spc[s] = "reading"

\* after a handler error a later frame reached its handler
C8_Witness ==
    \E s \in SessionIds : \E i, j \in 1..Len(log[s]) :
        /\ i < j
        /\ log[s][i].ev = "invoke" /\ log[s][i].res = "Err"
        /\ log[s][j].ev = "invoke"

(***************************************************************************)
(* C9.  As soon as a next_packet call does not deliver a packet, the       *)
(* session is Closed (and stays so).                                       *)
(***************************************************************************)
C9_FramingFailureCloses ==
    \A s \in SessionIds :
        (Called(s) /\ res[s].kind # "Ok") => spc[s] = "closed"

(***************************************************************************)
(* C10.  Within one connection the log of the session is, frame by frame   *)
(* in stream order: the frame is read, then its handler is called exactly  *)
(* once if its id is registered (and it is reported if not), and only      *)
(* then is the next frame read, which starts where the last one ended.     *)
(***************************************************************************)
C10_InOrderOneAtATime ==
    \A s \in SessionIds :
        LET q == log[s]
        IN  /\ \A k \in 1..Len(q) :
                 IF k % 2 = 1
                 THEN /\ q[k].ev = "frame"
                      /\ q[k].at = (IF k = 1 THEN 1 ELSE q[k - 1].end)
                 ELSE /\ q[k].ev = (IF q[k].pkt.packet_id \in RegisteredIds
                                    THEN "invoke" ELSE "unknown")
                      /\ q[k].pkt = q[k - 1].pkt
                      /\ q[k].at = q[k - 1].at
                      /\ q[k].end = q[k - 1].end
            /\ (Len(q) % 2 = 1) <=> (spc[s] \in {"lookup", "dispatch"})
            /\ spc[s] \in {"lookup", "dispatch"} =>
                 (res[s].kind = "Ok" /\ Last(q).pkt = res[s].packet /\ Last(q).end = res[s].pos)
            /\ (spc[s] = "reading" /\ q # <<>>) => Last(q).end = res[s].pos

\* two frames of one stream reached their handlers, one after the other
C10_Witness ==
    \E s \in SessionIds :
        /\ Len(log[s]) >= 4
        /\ log[s][2].ev = "invoke"
        /\ log[s][4].ev = "invoke"
        /\ log[s][1].at < log[s][3].at

(***************************************************************************)
(* Parser functions.                                                       *)
(***************************************************************************)
Returned(f) == call.op = f /\ ret # NotReturned
Consumed == ret.pos - 1
ContinuedFor(n) ==
    Len(call.st) >= n /\ \A i \in 1..n : BitAnd(call.st[i], CONTINUE_BIT) # 0

\* C11: read_varint returns v on the canonical VarInt encoding of every u32 v,
\* fails with VarIntTooBig on every stream whose first five bytes all carry
\* the continuation bit, and never consumes more than five bytes.
C11_VarIntRoundTrip ==
    Returned("read_varint") =>
        /\ call.of \in U32Values =>
               ret.ok /\ ret.value = call.of /\ Consumed = Len(EncodeWide(call.of))
        /\ ContinuedFor(5) => ~ret.ok /\ ret.err = "VarIntTooBig"
        /\ Consumed <= 5

C11_Witness ==
    /\ Returned("read_varint")
    /\ call.of = <<65535, 65535>>
    /\ call.st = EncodeWide(<<65535, 65535>>) \o <<128>>
    /\ Len(EncodeWide(<<65535, 65535>>)) = 5
    /\ ret.ok

\* C12: read_varlong returns v on the canonical VarLong encoding of every u64 v,
\* fails with VarLongTooBig on every stream whose first ten bytes all carry
\* the continuation bit, and never consumes more than ten bytes.
C12_VarLongRoundTrip ==
    Returned("read_varlong") =>
        /\ call.of \in U64Values =>
               ret.ok /\ ret.value = call.of /\ Consumed = Len(EncodeWide(call.of))
        /\ ContinuedFor(10) => ~ret.ok /\ ret.err = "VarLongTooBig"
        /\ Consumed <= 10

C12_Witness ==
    /\ Returned("read_varlong")
    /\ call.of = <<65535, 65535, 65535, 65535>>
    /\ call.st = EncodeWide(<<65535, 65535, 65535, 65535>>) \o <<128>>
    /\ Len(EncodeWide(<<65535, 65535, 65535, 65535>>)) = 10
    /\ ret.ok

\* bit i of a byte
BitOf(byte, i) == (byte \div Pow2(i)) % 2 = 1
CeilDiv8(n) == (n + 7) \div 8

\* C13: read_fixed_bitset(n) consumes exactly ceil(n/8) bytes and bit i of
\* its result is (byte[i/8] >> (i%8)) & 1; for n = 8 it consumes one byte.
C13_FixedBitsetLayout ==
    Returned("read_fixed_bitset") /\ Len(call.st) >= CeilDiv8(call.arg) =>
        /\ ret.ok
        /\ Consumed = CeilDiv8(call.arg)
        /\ \A i \in 0..(call.arg - 1) :
             /\ i + 1 <= Len(ret.bits)
             /\ ret.bits[i + 1] = BitOf(call.st[(i \div 8) + 1], i % 8)

\* the VarInt at the head of the stream, for one-byte prefixes
PrefixLength == call.st[1]
\* bit i of a bit set of 64-bit words, each word eight bytes, high byte first
WordBit(payload, i) ==
    BitOf(payload[8 * (i \div 64) + 8 - ((i % 64) \div 8)], i % 8)

\* C14: read_bitset reads a VarInt L, consumes exactly 8 L bytes after it and
\* returns 64 L booleans, bit i being (word[i/64] >> (i%64)) & 1.
C14_BitsetLayout ==
    Returned("read_bitset") /\ Len(call.st) >= 1 + 8 * PrefixLength =>
        /\ ret.ok
        /\ Consumed = 1 + 8 * PrefixLength
        /\ Len(ret.bits) = 64 * PrefixLength
        /\ \A i \in 0..(64 * PrefixLength - 1) :
             /\ i + 1 <= Len(ret.bits)
             /\ ret.bits[i + 1] = WordBit(Tail(call.st), i)

\* the text a string or JSON field carries, when the stream holds all of it
HasText == Len(call.st) >= 1 /\ Len(call.st) >= 1 + PrefixLength
Text == SubSeq(call.st, 2, 1 + PrefixLength)

\* C15: on a text that is not UTF-8 read_string returns InvalidUtf8, on a text
\* that is not UTF-8 or not JSON read_json returns InvalidUtf8 or Json: the
\* caller gets an Err and its task keeps running.
C15_MalformedTextIsError ==
    /\ Returned("read_string") /\ HasText /\ ~from_utf8_ok(Text, 1) =>
           ret.kind = "Err" /\ ret.err = "InvalidUtf8"
    /\ Returned("read_json") /\ HasText /\ ~(from_utf8_ok(Text, 1) /\ from_str_ok(Text)) =>
           ret.kind = "Err" /\ ret.err \in {"InvalidUtf8", "Json"}

(***************************************************************************)
(* Accept loop and sessions.                                               *)
(***************************************************************************)
\* an accept() call whose listener is bound
Bound(c) == apc[c] \in {"accepting", "returned"}
\* a session that has a step to take
Active(s) == spc[s] \in {"spawned", "reading", "lookup", "dispatch"}

\* C16: the accept loop never ends on its own: after an accept attempt that
\* yields an error the call is still in the loop.
C16_AcceptLoopNeverEnds == \A c \in Callers : apc[c] # "returned"

SessionState(s) == <<spc[s], stream[s], res[s], func[s], log[s]>>

C19_NoDelayFailureNotFatal == \A s \in SessionIds : spc[s] # "nodelay_panicked"

\* C20: is_running is true on an instance only after the listening socket of
\* an accept() call on it has been bound.
C20_RunningOnlyOnceBound ==
    \A i \in Instances : is_running[i] => \E c \in Callers : self[c] = i /\ Bound(c)

(***************************************************************************)
(* VarInt: the sized reader and the fifth byte.                            *)
(***************************************************************************)
\* C21: read_varint_and_get_size agrees with read_varint: on every stream both
\* succeed or both fail with the same error, they return the same value, and
\* the reported size is the number of bytes the call consumed, from 1 to 5.
C21_SizedReaderAgrees ==
    Returned("read_varint_and_get_size") =>
        LET plain == read_varint(call.st, 1)
        IN  /\ ret.ok = plain.ok
            /\ ret.err = plain.err
            /\ ret.pos = plain.pos
            /\ ret.ok => /\ ret.value = plain.value
                         /\ ret.size = Consumed
                         /\ ret.size \in 1..5

C21_Witness ==
    /\ Returned("read_varint_and_get_size")
    /\ call.of = <<65535, 65535>>
    /\ ret.ok
    /\ ret.size = 5

\* the low seven bits of byte i of the stream
Segment(i) == call.st[i] % 128
\* the 28 bits the first four bytes carry
Low28 == Segment(1) + 128 * Segment(2) + 16384 * Segment(3) + 2097152 * Segment(4)
\* a stream of four continuation bytes and a fifth byte without the bit
FiveByteForm ==
    /\ ContinuedFor(4)
    /\ Len(call.st) >= 5
    /\ call.st[5] < 128

\* C22: read_varint accepts every five-byte VarInt whose fifth byte has no
\* continuation bit: bits 4 to 6 of that byte are shifted out of the 32 bits
\* and the call returns the accumulated value modulo 2^32, not VarIntTooBig.
C22_FifthByteTruncated ==
    Returned("read_varint") /\ FiveByteForm =>
        /\ ret.ok
        /\ Consumed = 5
        /\ ret.value = <<Low28 % 65536, (Low28 \div 65536) + 4096 * (Segment(5) % 16)>>

C22_Witness ==
    /\ Returned("read_varint")
    /\ FiveByteForm
    /\ call.st[5] = 127
    /\ ret.ok
    /\ ret.value = <<65535, 65535>>

====
